---- MODULE Spec2Model ----
(***************************************************************************)
(* Model of part-4: the Author/Book CRUD handlers of app.py over the two   *)
(* tables declared in models.py, stored in SQLite through SQLAlchemy.      *)
(*                                                                         *)
(* Strings are modelled by positive integers, ordered as the BINARY        *)
(* collation orders the strings they stand for.                            *)
(***************************************************************************)
EXTENDS Integers, Sequences, FiniteSets, TLC

VARIABLES authors, books, resp, sess, lastCommit, nreq

vars == <<authors, books, resp, sess, lastCommit, nreq>>

-----------------------------------------------------------------------------
(* Bounds *)

MaxAuthors == 2
MaxBooks == 2
MaxName == 2
MaxTitle == 2
MaxIsbn == 1
MaxText == 1
MaxPage == 3
MaxPerPage == 2
MaxRequests == 2

(* Values that are not strings *)

\* None in Python, NULL in a column
Null == 0
\* the key is absent from request.form / the JSON body
Missing == -1
\* a form string that int() rejects
NonNumeric == -2

AuthorIds == 1..MaxAuthors
BookIds == 1..MaxBooks
Names == 1..MaxName
Titles == 1..MaxTitle
Isbns == 1..MaxIsbn
\* request.form.get('bio'): the string, or None when the key is absent
OptTexts == {Null} \cup (1..MaxText)

\* sqlite:///books.db is opened with SQLite's default PRAGMA foreign_keys = OFF
\* and app.py registers no connect hook that turns it on.
ForeignKeysEnforced == FALSE

-----------------------------------------------------------------------------
(* Storage helpers *)

RECURSIVE MaxOf(_)
MaxOf(S) ==
    IF S = {} THEN 0
    ELSE LET x == CHOOSE y \in S : TRUE
             m == MaxOf(S \ {x})
         IN IF x > m THEN x ELSE m

\* INTEGER PRIMARY KEY without AUTOINCREMENT: the new rowid is max(rowid) + 1
NextId(table) == MaxOf(DOMAIN table) + 1

Insert(table, row) ==
    [i \in DOMAIN table \cup {NextId(table)} |->
        IF i \in DOMAIN table THEN table[i] ELSE row]

Remove(table, ids) == [i \in DOMAIN table \ ids |-> table[i]]

RECURSIVE RowidOrder(_)
\* a table scan without ORDER BY walks the rowids upwards
RowidOrder(S) ==
    IF S = {} THEN << >>
    ELSE LET m == CHOOSE x \in S : \A y \in S : x <= y
         IN <<m>> \o RowidOrder(S \ {m})

\* Query.get_or_404(id)
get_or_404(table, id) == id \in DOMAIN table

\* the UPDATE a flush emits sets only the attributes whose value differs from
\* the value that was loaded
FlushUpdate(row, loaded, obj) ==
    [f \in DOMAIN row |-> IF obj[f] # loaded[f] THEN obj[f] ELSE row[f]]

\* the relationship declared without a cascade: no book row is deleted
CascadeNothing(id) == {}

\* the ORM cascade 'all, delete-orphan' deletes the rows of author.books
CascadeBooks(id) == {b \in DOMAIN books : books[b].author_id = id}

\* the row violates no constraint of the books table
BookRowAccepted(row) ==
    /\ row.title # Null
    /\ row.author_id # Null
    /\ (ForeignKeysEnforced => row.author_id \in DOMAIN authors)

Response(h, st, a, b) == [handler |-> h, status |-> st, args |-> a, body |-> b]

Result(a, b, st, body) == [a |-> a, b |-> b, status |-> st, body |-> body]

-----------------------------------------------------------------------------
(* Author CRUD *)

AuthorForms == [name : Names \cup {Missing}, bio : OptTexts, city : OptTexts]

add_author_result(form) ==
    IF form.name = Missing THEN Result(authors, books, 400, << >>)
    ELSE Result(Insert(authors, form), books, 302, << >>)

update_author_result(id, form) ==
    IF ~get_or_404(authors, id) THEN Result(authors, books, 404, << >>)
    ELSE IF form.name = Missing THEN Result(authors, books, 400, << >>)
    ELSE Result([authors EXCEPT ![id] = FlushUpdate(authors[id], authors[id], form)],
                books, 302, << >>)

delete_author_result(id) ==
    IF ~get_or_404(authors, id) THEN Result(authors, books, 404, {})
    ELSE Result(Remove(authors, {id}), Remove(books, CascadeBooks(id)), 302,
                CascadeBooks(id))

-----------------------------------------------------------------------------
(* Book CRUD *)

BookForms ==
    [title : Titles \cup {Missing},
     isbn : Isbns \cup {Missing},
     author_id : AuthorIds \cup {Missing, NonNumeric}]

FormKeyMissing(form) ==
    form.title = Missing \/ form.isbn = Missing \/ form.author_id = Missing

add_book_result(form) ==
    IF FormKeyMissing(form) THEN Result(authors, books, 400, << >>)
    ELSE IF form.author_id = NonNumeric THEN Result(authors, books, 500, << >>)
    ELSE IF ~BookRowAccepted(form) THEN Result(authors, books, 500, << >>)
    ELSE Result(authors, Insert(books, form), 302, << >>)

\* update_book committing whatever was assigned before a key turned out missing
update_book_partial(id, form) ==
    IF ~get_or_404(books, id) THEN Result(authors, books, 404, << >>)
    ELSE IF form.title = Missing THEN Result(authors, books, 400, << >>)
    ELSE IF form.isbn = Missing \/ form.author_id = Missing
         THEN Result(authors, [books EXCEPT ![id].title = form.title], 400, << >>)
    ELSE IF form.author_id = NonNumeric THEN Result(authors, books, 500, << >>)
    ELSE Result(authors, [books EXCEPT ![id] = form], 302, << >>)

update_book_result(id, form) ==
    IF ~get_or_404(books, id) THEN Result(authors, books, 404, << >>)
    ELSE IF FormKeyMissing(form) THEN Result(authors, books, 400, << >>)
    ELSE IF form.author_id = NonNumeric THEN Result(authors, books, 500, << >>)
    ELSE IF ~BookRowAccepted(form) THEN Result(authors, books, 500, << >>)
    ELSE Result(authors,
                [books EXCEPT ![id] = FlushUpdate(books[id], books[id], form)],
                302, << >>)

\* delete_book with Query.get in place of get_or_404, skipping a missing row
delete_book_lenient(id) ==
    Result(authors, Remove(books, {id}), 302, << >>)

delete_book_result(id) ==
    IF ~get_or_404(books, id) THEN Result(authors, books, 404, << >>)
    ELSE Result(authors, Remove(books, {id}), 302, << >>)

-----------------------------------------------------------------------------
(* REST APIs *)

BookJson(b) ==
    [id |-> b, title |-> books[b].title, isbn |-> books[b].isbn,
     author |-> authors[books[b].author_id].name]

\* b.author is None when no authors row has the id books[b].author_id, and
\* b.author.name then raises AttributeError
HasAuthor(b) == books[b].author_id \in DOMAIN authors

\* jsonify([{...} for b in rows]) over a sequence of book ids
jsonify_books(ids) ==
    IF \A i \in 1..Len(ids) : HasAuthor(ids[i])
    THEN [status |-> 200, json |-> [i \in 1..Len(ids) |-> BookJson(ids[i])]]
    ELSE [status |-> 500, json |-> << >>]

api_books_result ==
    LET r == jsonify_books(RowidOrder(DOMAIN books))
    IN Result(authors, books, r.status, r.json)

JsonBodies ==
    [title : Titles \cup {Missing, Null},
     isbn : Isbns \cup {Missing},
     author_id : AuthorIds \cup {Missing, Null}]

api_add_book_result(data) ==
    IF FormKeyMissing(data) THEN Result(authors, books, 500, << >>)
    ELSE IF ~BookRowAccepted(data) THEN Result(authors, books, 500, << >>)
    ELSE Result(authors, Insert(books, data), 200, [success |-> TRUE])

(* Pagination *)

Ceil(n, d) == (n + d - 1) \div d

Min(a, b) == IF a < b THEN a ELSE b

\* Book.query.paginate(page=page, per_page=per_page), error_out left True
paginate(page, per_page) ==
    LET rows == RowidOrder(DOMAIN books)
        total == Len(rows)
        first == (page - 1) * per_page + 1
        last == Min(page * per_page, total)
        items == IF page < 1 THEN << >> ELSE SubSeq(rows, first, last)
    IN [found |-> page >= 1 /\ per_page >= 1 /\ (items # << >> \/ page = 1),
        total |-> total,
        pages |-> Ceil(total, per_page),
        items |-> items]

api_books_paginated_result(page, per_page) ==
    LET pagination == paginate(page, per_page)
        r == jsonify_books(pagination.items)
    IN IF ~pagination.found THEN Result(authors, books, 404, << >>)
       ELSE IF r.status # 200 THEN Result(authors, books, r.status, << >>)
       ELSE Result(authors, books, 200,
                   [total |-> pagination.total, pages |-> pagination.pages,
                    books |-> r.json])

(* Sorting *)

BookColumns == {"id", "title", "isbn", "author_id"}

\* what else getattr(Book, name) finds on the mapped class, among others
BookOtherAttributes == {"author", "query", "metadata"}

SortInputs == BookColumns \cup BookOtherAttributes \cup {"name"}

OrderInputs == {"asc", "desc", "up"}

\* getattr(Book, sort, Book.title)
getattr_Book(sort) ==
    IF sort \in BookColumns \cup BookOtherAttributes THEN sort ELSE "title"

ColumnValue(b, column) == IF column = "id" THEN b ELSE books[b][column]

\* a goes before b under ORDER BY column ASC / DESC
Before(a, b, column, desc) ==
    IF desc THEN ColumnValue(a, column) > ColumnValue(b, column)
    ELSE ColumnValue(a, column) < ColumnValue(b, column)

RECURSIVE InsertSorted(_, _, _, _)
InsertSorted(seq, b, column, desc) ==
    IF seq = << >> THEN <<b>>
    ELSE IF Before(b, Head(seq), column, desc) THEN <<b>> \o seq
    ELSE <<Head(seq)>> \o InsertSorted(Tail(seq), b, column, desc)

RECURSIVE OrderRows(_, _, _)
\* Book.query.order_by(...).all(); rows with equal keys stay in rowid order
OrderRows(rows, column, desc) ==
    IF rows = << >> THEN << >>
    ELSE InsertSorted(OrderRows(SubSeq(rows, 1, Len(rows) - 1), column, desc),
                      rows[Len(rows)], column, desc)

api_books_sorting_result(sort, order) ==
    LET column == getattr_Book(sort)
    IN IF column \notin BookColumns
       \* relationship, Query and MetaData objects give no usable .asc()/.desc()
       THEN Result(authors, books, 500, << >>)
       ELSE LET r == jsonify_books(
                        OrderRows(RowidOrder(DOMAIN books), column, order = "desc"))
            IN Result(authors, books, r.status, r.json)

-----------------------------------------------------------------------------
(* The handlers as actions: one request, served start to end *)

Serve(h, a, r) ==
    /\ authors' = r.a
    /\ books' = r.b
    /\ resp' = Response(h, r.status, a, r.body)
    /\ UNCHANGED <<sess, lastCommit, nreq>>

add_author ==
    \E form \in AuthorForms :
        /\ NextId(authors) <= MaxAuthors
        /\ Serve("add_author", << >>, add_author_result(form))

update_author ==
    \E id \in AuthorIds, form \in AuthorForms :
        Serve("update_author", id, update_author_result(id, form))

delete_author ==
    \E id \in AuthorIds :
        Serve("delete_author", id, delete_author_result(id))

add_book ==
    \E form \in BookForms :
        /\ NextId(books) <= MaxBooks
        /\ Serve("add_book", form.author_id, add_book_result(form))

update_book ==
    \E id \in BookIds, form \in BookForms :
        Serve("update_book", <<id, form>>, update_book_result(id, form))

delete_book ==
    \E id \in BookIds :
        Serve("delete_book", id, delete_book_result(id))

api_books ==
    Serve("api_books", << >>, api_books_result)

api_add_book ==
    \E data \in JsonBodies :
        /\ NextId(books) <= MaxBooks
        /\ Serve("api_add_book", data.author_id, api_add_book_result(data))

api_books_paginated ==
    \E page \in 0..MaxPage, per_page \in 1..MaxPerPage :
        Serve("api_books_paginated", <<page, per_page>>,
              api_books_paginated_result(page, per_page))

api_books_sorting ==
    \E sort \in SortInputs, order \in OrderInputs :
        Serve("api_books_sorting", <<sort, order>>,
              api_books_sorting_result(sort, order))

-----------------------------------------------------------------------------

IdleSession == [pc |-> "idle"]
Sessions == {1, 2}

Init ==
    /\ authors = << >>
    /\ books = << >>
    /\ resp = Response("none", 0, << >>, << >>)
    /\ sess = [s \in Sessions |-> IdleSession]
    /\ lastCommit = [author |-> {}, book |-> {}]
    /\ nreq = 0

Next ==
    \/ add_author
    \/ update_author
    \/ delete_author
    \/ add_book
    \/ update_book
    \/ delete_book
    \/ api_books
    \/ api_add_book
    \/ api_books_paginated
    \/ api_books_sorting

Spec == Init /\ [][Next]_vars

-----------------------------------------------------------------------------
(* Properties of the handlers *)

\* C1: every stored Book's author_id is the id of a stored Author.
BookAuthorIsStored ==
    \A b \in DOMAIN books : books[b].author_id \in DOMAIN authors

\* C2: a successful delete_author(id) removes the Author and every Book whose
\* author_id was id, and leaves every other Book stored with unchanged fields.
DeleteAuthorCascades ==
    [][(resp'.handler = "delete_author" /\ resp'.status = 302) =>
         LET id == resp'.args
         IN /\ id \in DOMAIN authors
            /\ id \notin DOMAIN authors'
            /\ \A b \in DOMAIN books :
                 IF books[b].author_id = id
                 THEN b \notin DOMAIN books'
                 ELSE b \in DOMAIN books' /\ books'[b] = books[b]]_vars

\* a delete_author that removed some Book and left another Author's Book
DeleteAuthorCascaded ==
    /\ resp.handler = "delete_author"
    /\ resp.status = 302
    /\ resp.body # {}
    /\ \E b \in DOMAIN books : books[b].author_id \in DOMAIN authors

\* C3: POST /api/add-book with an author_id that no stored Author has ends in
\* an error and leaves the stored Books unchanged.
ApiAddBookRejectsUnknownAuthor ==
    [][(resp'.handler = "api_add_book" /\ resp'.args \notin DOMAIN authors) =>
         (resp'.status # 200 /\ books' = books)]_vars

RECURSIVE Concat(_, _)
\* the concatenation of seqs[1], ..., seqs[n]
Concat(seqs, n) == IF n = 0 THEN << >> ELSE Concat(seqs, n - 1) \o seqs[n]

\* C4: for per_page = p >= 1 the pagination reports total = the number of stored
\* Books and pages = ceil(total / p), and the books arrays of pages 1..pages,
\* concatenated in order, hold every stored Book exactly once.
PaginationCoversTable ==
    resp.handler = "api_books_paginated" =>
        LET p == resp.args[2]
            total == Cardinality(DOMAIN books)
            pages == Ceil(total, p)
            page(k) == api_books_paginated_result(k, p)
            all == Concat([k \in 1..pages |-> page(k).body.books], pages)
        IN /\ page(1).status = 200
           /\ page(1).body.total = total
           /\ page(1).body.pages = pages
           /\ \A k \in 1..pages : page(k).status = 200
           /\ Len(all) = total
           /\ \A b \in DOMAIN books : \E i \in 1..Len(all) : all[i] = BookJson(b)

\* C5: a sort parameter that names no Book column, the names of other
\* attributes of Book included, is answered with the Books ordered by title.
SortFallsBackToTitle ==
    (resp.handler = "api_books_sorting" /\ resp.args[1] \notin BookColumns) =>
        /\ resp.status = 200
        /\ resp.body = api_books_sorting_result("title", resp.args[2]).body

\* C6: the sorting endpoint returns every stored Book exactly once, in
\* non-increasing order of the selected column for order = desc and in
\* non-decreasing order for any other order.
SortedPermutation ==
    (resp.handler = "api_books_sorting" /\ getattr_Book(resp.args[1]) \in BookColumns) =>
        LET column == getattr_Book(resp.args[1])
            out == resp.body
        IN /\ resp.status = 200
           /\ Len(out) = Cardinality(DOMAIN books)
           /\ \A b \in DOMAIN books : \E i \in 1..Len(out) : out[i] = BookJson(b)
           /\ \A i, j \in 1..Len(out) :
                i < j =>
                    IF resp.args[2] = "desc"
                    THEN ColumnValue(out[i].id, column) >= ColumnValue(out[j].id, column)
                    ELSE ColumnValue(out[i].id, column) <= ColumnValue(out[j].id, column)

\* C7: update_book on a stored Book replaces title, isbn and author_id by the
\* submitted values and changes nothing else; with a key missing from the form
\* it fails and the stored Book keeps every previous value.
UpdateBookAllOrNothing ==
    [][(resp'.handler = "update_book" /\ resp'.args[1] \in DOMAIN books) =>
         LET id == resp'.args[1]
             form == resp'.args[2]
             missing == {f \in {"title", "isbn", "author_id"} : form[f] = Missing}
         IN /\ (missing = {} /\ form.author_id # NonNumeric) =>
                 /\ resp'.status = 302
                 /\ books' = [books EXCEPT ![id] = form]
                 /\ authors' = authors
            /\ missing # {} =>
                 /\ resp'.status >= 400
                 /\ books' = books
                 /\ authors' = authors]_vars

\* an update_book that failed on a missing isbn after a new title was assigned
UpdateBookFailedAfterTitle ==
    /\ resp.handler = "update_book"
    /\ resp.status = 400
    /\ resp.args[1] \in DOMAIN books
    /\ resp.args[2].title \in Titles
    /\ resp.args[2].isbn = Missing
    /\ resp.args[2].title # books[resp.args[1]].title

\* C8: GET /api/books succeeds with exactly one entry per stored Book, whose
\* author is the name of the Author with the Book's author_id.
ApiBooksListsEveryBook ==
    resp.handler = "api_books" =>
        /\ resp.status = 200
        /\ Len(resp.body) = Cardinality(DOMAIN books)
        /\ \A b \in DOMAIN books :
             \E i \in 1..Len(resp.body) :
                resp.body[i] = [id |-> b, title |-> books[b].title,
                                isbn |-> books[b].isbn,
                                author |-> authors[books[b].author_id].name]

RequestId(r) == IF r.handler = "update_book" THEN r.args[1] ELSE r.args

\* C9: update_author, delete_author, update_book and delete_book with an id
\* that matches no row answer 404 and leave both tables as they were.
MissingIdIsNotFound ==
    [][(\/ /\ resp'.handler \in {"update_author", "delete_author"}
           /\ RequestId(resp') \notin DOMAIN authors
        \/ /\ resp'.handler \in {"update_book", "delete_book"}
           /\ RequestId(resp') \notin DOMAIN books) =>
         (resp'.status = 404 /\ authors' = authors /\ books' = books)]_vars

\* a 404 from a Book handler while Authors and other Books are stored
BookNotFoundAnswered ==
    /\ resp.handler \in {"update_book", "delete_book"}
    /\ resp.status = 404
    /\ RequestId(resp) \notin DOMAIN books
    /\ authors # << >>
    /\ books # << >>

-----------------------------------------------------------------------------
(* Two update requests in flight, each in a session of its own.  A request  *)
(* reads its row (get_or_404), assigns the form to the loaded object, and   *)
(* commits; the steps of the two requests interleave.                       *)

AuthorRows == [name : Names, bio : OptTexts, city : OptTexts]
BookRows == [title : Titles, isbn : Isbns, author_id : AuthorIds]

Table(kind) == IF kind = "book" THEN books ELSE authors

\* line 65 / line 97: the SELECT of get_or_404; no lock outlives it
Fetch(s, kind, id, form) ==
    /\ sess[s].pc = "idle"
    /\ nreq < MaxRequests
    /\ nreq' = nreq + 1
    /\ IF get_or_404(Table(kind), id)
       THEN /\ sess' = [sess EXCEPT ![s] =
                          [pc |-> "fetched", kind |-> kind, id |-> id, form |-> form,
                           loaded |-> Table(kind)[id], obj |-> Table(kind)[id]]]
            /\ UNCHANGED resp
       ELSE /\ resp' = Response("update_" \o kind, 404, id, << >>)
            /\ UNCHANGED sess
    /\ UNCHANGED <<authors, books, lastCommit>>

\* lines 66-68 / 98-100: the attributes of the loaded object are set; a
\* request that raises here ends with its session discarded
Assign(s, kind, bad) ==
    /\ sess[s].pc = "fetched"
    /\ sess[s].kind = kind
    /\ IF bad # 0
       THEN /\ sess' = [sess EXCEPT ![s] = IdleSession]
            /\ resp' = Response("update_" \o kind, bad, sess[s].id, << >>)
       ELSE /\ sess' = [sess EXCEPT ![s].pc = "assigned", ![s].obj = sess[s].form]
            /\ UNCHANGED resp
    /\ UNCHANGED <<authors, books, lastCommit, nreq>>

\* line 69 / line 101: db.session.commit() flushes the UPDATE and commits
Commit(s, kind) ==
    /\ sess[s].pc = "assigned"
    /\ sess[s].kind = kind
    /\ LET id == sess[s].id
           table == Table(kind)
       IN IF id \notin DOMAIN table
          \* the UPDATE matches no row: StaleDataError
          THEN /\ resp' = Response("update_" \o kind, 500, id, << >>)
               /\ UNCHANGED <<authors, books, lastCommit>>
          ELSE LET row == FlushUpdate(table[id], sess[s].loaded, sess[s].obj)
               IN /\ IF kind = "book"
                     THEN books' = [books EXCEPT ![id] = row] /\ UNCHANGED authors
                     ELSE authors' = [authors EXCEPT ![id] = row] /\ UNCHANGED books
                  /\ lastCommit' = [lastCommit EXCEPT ![kind] =
                                      {[id |-> id, row |-> sess[s].obj]}]
                  /\ resp' = Response("update_" \o kind, 302, id, << >>)
    /\ sess' = [sess EXCEPT ![s] = IdleSession]
    /\ UNCHANGED nreq

BookFormError(form) ==
    IF FormKeyMissing(form) THEN 400
    ELSE IF form.author_id = NonNumeric THEN 500
    ELSE 0

AuthorFormError(form) == IF form.name = Missing THEN 400 ELSE 0

update_book_fetch ==
    \E s \in Sessions, id \in BookIds, form \in BookForms : Fetch(s, "book", id, form)

update_book_assign ==
    \E s \in Sessions : Assign(s, "book", BookFormError(sess[s].form))

update_book_commit ==
    \E s \in Sessions : Commit(s, "book")

update_author_fetch ==
    \E s \in Sessions, id \in AuthorIds, form \in AuthorForms :
        Fetch(s, "author", id, form)

update_author_assign ==
    \E s \in Sessions : Assign(s, "author", AuthorFormError(sess[s].form))

update_author_commit ==
    \E s \in Sessions : Commit(s, "author")

\* one author and one book of that author are stored when the requests arrive
InitConc ==
    /\ authors \in [{1} -> AuthorRows]
    /\ books \in [{1} -> {r \in BookRows : r.author_id = 1}]
    /\ resp = Response("none", 0, << >>, << >>)
    /\ sess = [s \in Sessions |-> IdleSession]
    /\ lastCommit = [author |-> {}, book |-> {}]
    /\ nreq = 0

NextConc ==
    \/ update_book_fetch
    \/ update_book_assign
    \/ update_book_commit
    \/ update_author_fetch
    \/ update_author_assign
    \/ update_author_commit

SpecConc == InitConc /\ [][NextConc]_vars

\* C10: after concurrent updates of one row have committed, the row holds
\* exactly the fields submitted by the request that committed last.
LastWriterWins ==
    /\ \A x \in lastCommit.book : x.id \in DOMAIN books /\ books[x.id] = x.row
    /\ \A x \in lastCommit.author : x.id \in DOMAIN authors /\ authors[x.id] = x.row

====
